---- MODULE Spec2Model ----
(***************************************************************************)
(* The assignment-request lifecycle of the Writify backend                 *)
(* (src/backend/server.js): the relational store (users,                   *)
(* assignment_requests, assignments, ratings), the request handlers that   *)
(* read and write it, and the daily expiration sweep.                      *)
(*                                                                         *)
(* Every `await pool.query(...)` of a handler is one atomic step on the    *)
(* store (an autocommitted statement on a pooled connection); other        *)
(* handlers may run between two steps of the same handler.  BEGIN, COMMIT  *)
(* and ROLLBACK sent through pool.query read and write no row and are      *)
(* folded into the neighbouring step.  The account deletion runs on one    *)
(* dedicated client between BEGIN and COMMIT, so its deletes become        *)
(* visible together: it is one step.                                       *)
(*                                                                         *)
(* The schema (db/setupDatabase) is not part of the sources: the store has *)
(* the columns the statements name and no constraint that would make a     *)
(* statement of a handler fail; a failing statement is the step            *)
(* AcceptFail / DeleteFail.  Time is counted in whole days.                *)
(*                                                                         *)
(* Beside the store the process keeps the session of a browser (passport   *)
(* user and guest flag), the flag isLogoutInProgress with the order in     *)
(* which the app registers its routes and middleware, and the failed       *)
(* logins of security.js with Date.now() in minutes.  served holds the     *)
(* request and the response of the handlers that are one step.             *)
(***************************************************************************)
EXTENDS Integers, Sequences, FiniteSets, TLC

\* ------------------------------------------------------------------ bounds
\* Requests created in a behaviour (assignment_requests.id is a serial).
MaxRequests == 1
\* The last day of the clock.
MaxNow == 14
\* Requests in the store the expiration job starts on.
MaxSweepRows == 3

\* The minutes of Date.now() that are followed.
MaxMinutes == 90

\* The failed logins counted for one email.
MaxFailures == 6

\* -------------------------------------------------------- program constants
ASSIGNMENT_EXPIRATION_DAYS == 7

\* The accounts of the store: one per writer_status.
UserIds == {1, 2, 3}
\* The request handlers of a behaviour: two requests are served, one after
\* the other or overlapping in any way; each keeps its response.
Slots == {1, 2}
NULL == <<>>

VARIABLES
    now,                \* the server clock, in days
    users,              \* rows of table users, by id
    requests,           \* rows of table assignment_requests
    assignments,        \* rows of table assignments
    nextRequestId,      \* the serial of assignment_requests.id
    nextAssignmentId,   \* the serial of assignments.id
    calls,              \* the request handlers in flight, by slot
    ratings,            \* rows of table ratings
    host,               \* the node process: its cron job and what the job logged
    served,             \* the request last served in a single step, and its response
    isLogoutInProgress, \* the flag of the logout route
    loginAttempts,      \* the failed logins kept by security.js, by email
    loginLog,           \* Date.now() in minutes, and what the lockout was asked and told
    session             \* the session of one browser: its passport user and guest flag

\* The memory of the process that the handlers of the store do not touch.
memory == <<isLogoutInProgress, loginAttempts, loginLog, session>>

vars == <<now, users, requests, assignments, nextRequestId, nextAssignmentId, calls,
          ratings, host, served, memory>>

\* ------------------------------------------------------------ the population
\* writer_status of the accounts the store starts with: every status occurs.
InitWriterStatus(u) ==
    CASE u % 3 = 1 -> "inactive"
      [] u % 3 = 2 -> "active"
      [] OTHER     -> "busy"

\* whatsapp_number as stored: NULL, or the characters storePhoneNumber kept
\* (digits and the plus sign).
InitWhatsapp(u) ==
    CASE u % 3 = 1 -> <<"+", "9", "1", "2">>
      [] u % 3 = 2 -> NULL
      [] OTHER     -> <<"9", "1", "3">>

\* users.rating is numeric(3,2): it is kept in hundredths (500 is 5.00).
UserRow(u) ==
    [id |-> u, name |-> <<"user", u>>, writer_status |-> InitWriterStatus(u),
     whatsapp_number |-> InitWhatsapp(u), rating |-> 0, total_ratings |-> 0]

\* ------------------------------------------------------------------ helpers
Digits == {"0", "1", "2", "3", "4", "5", "6", "7", "8", "9"}

\* text.replace(/[^0-9]/g, '')
StripNonDigits(text) == SelectSeq(text, LAMBDA ch : ch \in Digits)

DigitValue(ch) ==
    CASE ch = "0" -> 0 [] ch = "1" -> 1 [] ch = "2" -> 2 [] ch = "3" -> 3 [] ch = "4" -> 4
      [] ch = "5" -> 5 [] ch = "6" -> 6 [] ch = "7" -> 7 [] ch = "8" -> 8 [] OTHER -> 9

\* NaN: no text without a sign spells a negative number.
NaN == 0 - 1

RECURSIVE DigitsValue(_, _)
DigitsValue(text, acc) ==
    IF text = <<>> \/ Head(text) \notin Digits THEN acc
    ELSE DigitsValue(Tail(text), 10 * acc + DigitValue(Head(text)))

\* parseInt(text) of a text without a sign: the number its leading digits
\* spell, NaN without one.
ParseInt(text) ==
    IF text = <<>> \/ Head(text) \notin Digits THEN NaN ELSE DigitsValue(text, 0)

UserById(id) == {u \in users : u.id = id}
RequestById(id) == {r \in requests : r.id = id}

NoRow == [id |-> 0]

IdleCall == [op |-> "none", pc |-> "idle", user |-> 0, rid |-> 0,
             client |-> NoRow, body |-> NoRow, existingRating |-> FALSE,
             res |-> [status |-> 0]]

\* The process after start-up: the job has not run and has logged nothing.
\* cronFired: the day of the last firing; sweeps, sweptAt: the completed runs
\* and the day of the last one; errors: the runs that logged an error.
InitHost == [serving |-> TRUE, cronFired |-> 0, sweeps |-> 0, sweptAt |-> 0, errors |-> 0,
             log |-> [kind |-> "none", count |-> 0]]

\* The handler has passed isAuthenticated and holds its parameters.
StartCall(c, op, firstPc, u, rid) ==
    calls' = [calls EXCEPT ![c] = [IdleCall EXCEPT !.op = op, !.pc = firstPc,
                                                   !.user = u, !.rid = rid]]

Goto(c, pc) == calls' = [calls EXCEPT ![c].pc = pc]

\* The slot a new request takes: the first unused one.
Idle(c) == calls[c].pc = "idle" /\ \A d \in Slots : d < c => calls[d].pc # "idle"

Finish(c, response) ==
    calls' = [calls EXCEPT ![c].pc = "done", ![c].res = response]

\* No single-step request has been served yet.
NoServed == [op |-> "none", user |-> 0, body |-> NoRow, res |-> [status |-> 0]]

\* The emails the identity provider reports on a failed login.
Emails == {"a@iul", "b@iul"}

\* loginAttempts.has(email) is false: the Map keeps a count of 1 or more.
NoAttempts == [count |-> 0, timestamp |-> 0]

\* clock: Date.now() in minutes.  op, email, told: the last call into the
\* lockout and what isAccountLocked returned.  failed: for each email, the
\* failed logins recorded since its record was last removed and the minute
\* of the latest one.
\* cleaned: the minute of the last run of the clean-up interval.
InitLoginLog == [clock |-> 0, cleaned |-> 0, op |-> "none", email |-> "", told |-> FALSE,
                 failed |-> [e \in Emails |-> [n |-> 0, last |-> 0]]]

\* req.user of a session without a passport user.
Guest == 0

\* A new session: nobody signed in, no guest mode.
NoSession == [user |-> Guest, guestMode |-> FALSE]

\* The process after start-up.
InitMemory ==
    /\ session = NoSession
    /\ served = NoServed
    /\ isLogoutInProgress = FALSE
    /\ loginAttempts = [e \in Emails |-> NoAttempts]
    /\ loginLog = InitLoginLog

Init ==
    /\ now = 0
    /\ users = {UserRow(u) : u \in UserIds}
    /\ requests = {}
    /\ assignments = {}
    /\ nextRequestId = 1
    /\ nextAssignmentId = 1
    /\ calls = [c \in Slots |-> IdleCall]
    /\ ratings = {}
    /\ host = InitHost
    /\ InitMemory

\* ------------------------------------------------------------------- clock
\* The clock advances a retention window at a time: a request is then
\* younger than the cutoff of a later reader, exactly at it, or older.
Tick ==
    /\ now + ASSIGNMENT_EXPIRATION_DAYS <= MaxNow
    /\ now' = now + ASSIGNMENT_EXPIRATION_DAYS
    /\ UNCHANGED <<memory, served, ratings, host, users, requests, assignments, nextRequestId, nextAssignmentId, calls>>

\* ------------------------------------------------------------- the session
\* Authenticated for every caller.
Authenticated_Always(u) == TRUE

\* isAuthenticated: req.isAuthenticated() is true when passport found the
\* session's user in the users table.
Authenticated(u) == UserById(u) # {}

\* The routes behind isAuthenticated that write to the store.
MutatingRoutes == {"create", "accept", "delete", "rating", "profile", "delete-account"}

\* POST /auth/guest-login: guestMode and guestUser are written to the
\* session, whoever is signed in on it; no table is written.
GuestLogin ==
    /\ session' = [session EXCEPT !.guestMode = TRUE]
    /\ UNCHANGED <<isLogoutInProgress, loginAttempts, loginLog, served, ratings, host, now,
                   users, requests, assignments, nextRequestId, nextAssignmentId, calls>>

\* GET /auth/google/callback of a stored user: req.logIn regenerates the
\* session and keeps nothing of the old one.
GoogleLogin(u) ==
    /\ UserById(u) # {}
    /\ session' = [user |-> u, guestMode |-> FALSE]
    /\ UNCHANGED <<isLogoutInProgress, loginAttempts, loginLog, served, ratings, host, now,
                   users, requests, assignments, nextRequestId, nextAssignmentId, calls>>

\* isAuthenticated on a request to a mutating route of a session whose
\* req.isAuthenticated() is false: 401, and the handler is not called.
NotAuthenticated(route) ==
    /\ ~ Authenticated(session.user)
    /\ served' = [NoServed EXCEPT !.op = route, !.user = session.user,
                      !.res = [status |-> 401, error |-> "Not authenticated"]]
    /\ UNCHANGED <<memory, ratings, host, now, users, requests, assignments, nextRequestId,
                   nextAssignmentId, calls>>

\* ------------------------------------------------- security.js: the lockout
MaxAttempts == 5
lockTime == 30
CleanupEvery == 60

\* The minutes that pass between two calls.
Waits == {10, 30}

NoFailures == [n |-> 0, last |-> 0]

\* What isAccountLocked(email) returns on the Map as it is.
Locked(email) ==
    /\ loginAttempts[email] # NoAttempts
    /\ loginAttempts[email].count >= MaxAttempts
    /\ loginLog.clock - loginAttempts[email].timestamp < lockTime

\* The Map after isAccountLocked(email): the record of a lock that has run
\* out is deleted.
AfterIsAccountLocked(email) ==
    IF /\ loginAttempts[email] # NoAttempts
       /\ loginAttempts[email].count >= MaxAttempts
       /\ ~ (loginLog.clock - loginAttempts[email].timestamp < lockTime)
    THEN [loginAttempts EXCEPT ![email] = NoAttempts]
    ELSE loginAttempts

\* recordFailedLogin that leaves the timestamp of a record it finds.
AfterRecordFailedLogin_KeepTimestamp(attempts, email) ==
    IF attempts[email] = NoAttempts
    THEN [attempts EXCEPT ![email] = [count |-> 1, timestamp |-> loginLog.clock]]
    ELSE [attempts EXCEPT ![email].count = @ + 1]

\* The Map after recordFailedLogin(email).
AfterRecordFailedLogin(attempts, email) ==
    IF attempts[email] = NoAttempts
    THEN [attempts EXCEPT ![email] = [count |-> 1, timestamp |-> loginLog.clock]]
    ELSE [attempts EXCEPT ![email].count = @ + 1, ![email].timestamp = loginLog.clock]

\* The log after a call: a record that was deleted restarts the count of the
\* email, a failure that was recorded adds to it.
Logged(op, email, told, attempts, recorded) ==
    [loginLog EXCEPT
        !.op = op, !.email = email, !.told = told,
        !.failed = [e \in Emails |->
            IF e = email /\ recorded
            THEN [n |-> (IF attempts[e] = NoAttempts /\ loginAttempts[e] # NoAttempts
                         THEN 0 ELSE @[e].n) + 1,
                  last |-> loginLog.clock]
            ELSE IF attempts[e] = NoAttempts /\ loginAttempts[e] # NoAttempts
            THEN NoFailures
            ELSE @[e]]]

IsAccountLocked(email) ==
    /\ loginAttempts' = AfterIsAccountLocked(email)
    /\ loginLog' = Logged("isAccountLocked", email, Locked(email),
                          AfterIsAccountLocked(email), FALSE)
    /\ UNCHANGED <<isLogoutInProgress, session, served, ratings, host, now, users, requests,
                   assignments, nextRequestId, nextAssignmentId, calls>>

RecordFailedLogin(email) ==
    /\ loginAttempts[email].count < MaxFailures
    /\ loginAttempts' = AfterRecordFailedLogin(loginAttempts, email)
    /\ loginLog' = Logged("recordFailedLogin", email, FALSE, loginAttempts, TRUE)
    /\ UNCHANGED <<isLogoutInProgress, session, served, ratings, host, now, users, requests,
                   assignments, nextRequestId, nextAssignmentId, calls>>

ResetLoginAttempts(email) ==
    /\ loginAttempts' = [loginAttempts EXCEPT ![email] = NoAttempts]
    /\ loginLog' = Logged("resetLoginAttempts", email, FALSE,
                          [loginAttempts EXCEPT ![email] = NoAttempts], FALSE)
    /\ UNCHANGED <<isLogoutInProgress, session, served, ratings, host, now, users, requests,
                   assignments, nextRequestId, nextAssignmentId, calls>>

\* GET /auth/google/callback of a sign-in that the strategy refused for the
\* email: the redirect account_locked when isAccountLocked says so, and
\* otherwise the session is destroyed and the failure recorded.
GoogleCallbackFails(email) ==
    /\ loginAttempts[email].count < MaxFailures
    /\ LET checked == AfterIsAccountLocked(email) IN
        /\ loginAttempts' = IF Locked(email) THEN checked
                            ELSE AfterRecordFailedLogin(checked, email)
        /\ loginLog' = Logged("callback", email, Locked(email), checked, ~ Locked(email))
        /\ session' = IF Locked(email) THEN session ELSE NoSession
    /\ UNCHANGED <<isLogoutInProgress, served, ratings, host, now, users, requests,
                   assignments, nextRequestId, nextAssignmentId, calls>>

\* The interval is due: a full hour has been reached and it has not run yet.
CleanupDue ==
    /\ loginLog.clock > 0 /\ loginLog.clock % CleanupEvery = 0
    /\ loginLog.cleaned # loginLog.clock

\* The hourly interval: every record older than the lock time is deleted.
CleanupLoginAttempts ==
    /\ CleanupDue
    /\ LET kept == [e \in Emails |->
                       IF loginAttempts[e] # NoAttempts
                          /\ loginLog.clock - loginAttempts[e].timestamp > lockTime
                       THEN NoAttempts ELSE loginAttempts[e]] IN
        /\ loginAttempts' = kept
        /\ loginLog' = [Logged("cleanup", "", FALSE, kept, FALSE)
                          EXCEPT !.cleaned = loginLog.clock]
    /\ UNCHANGED <<isLogoutInProgress, session, served, ratings, host, now, users, requests,
                   assignments, nextRequestId, nextAssignmentId, calls>>

\* Date.now() moves on; the interval runs when its hour comes.
Wait(minutes) ==
    /\ ~ CleanupDue
    /\ loginLog.clock + minutes <= MaxMinutes
    /\ loginLog.clock \div CleanupEvery = (loginLog.clock + minutes - 1) \div CleanupEvery
    /\ loginLog' = [loginLog EXCEPT !.clock = @ + minutes, !.op = "wait", !.email = "",
                                     !.told = FALSE]
    /\ UNCHANGED <<isLogoutInProgress, loginAttempts, session, served, ratings, host, now,
                   users, requests, assignments, nextRequestId, nextAssignmentId, calls>>

\* ------------------------------------------------------- the app's stack
\* Layers with the later registration of GET /auth/logout ahead of the
\* earlier one.
Layers_FlagRouteFirst ==
    <<[name |-> "logoutWithFlag", method |-> "GET", path |-> "/auth/logout", ends |-> TRUE],
      [name |-> "logout", method |-> "GET", path |-> "/auth/logout", ends |-> TRUE],
      [name |-> "deleteAccount", method |-> "DELETE", path |-> "/api/delete-account",
       ends |-> TRUE],
      [name |-> "notFound", method |-> "*", path |-> "*", ends |-> TRUE],
      [name |-> "preventDbOperationsDuringLogout", method |-> "*", path |-> "*",
       ends |-> FALSE],
      [name |-> "apiLogout", method |-> "GET", path |-> "/api/auth/logout", ends |-> TRUE]>>

\* The layers of the express app that a logout or an account deletion can
\* meet, in the order server.js registers them.  ends: the layer answers the
\* request and does not call next().
Layers ==
    <<[name |-> "logout", method |-> "GET", path |-> "/auth/logout", ends |-> TRUE],
      [name |-> "deleteAccount", method |-> "DELETE", path |-> "/api/delete-account",
       ends |-> TRUE],
      [name |-> "notFound", method |-> "*", path |-> "*", ends |-> TRUE],
      [name |-> "preventDbOperationsDuringLogout", method |-> "*", path |-> "*",
       ends |-> FALSE],
      [name |-> "apiLogout", method |-> "GET", path |-> "/api/auth/logout", ends |-> TRUE],
      [name |-> "logoutWithFlag", method |-> "GET", path |-> "/auth/logout", ends |-> TRUE]>>

Matches(layer, method, path) ==
    /\ layer.method \in {"*", method}
    /\ layer.path \in {"*", path}

\* The names of the layers a request runs through: every matching layer, in
\* order, up to the first one that answers.
RECURSIVE Dispatch(_, _, _)
Dispatch(layers, method, path) ==
    IF layers = <<>> THEN <<>>
    ELSE IF ~ Matches(Head(layers), method, path) THEN Dispatch(Tail(layers), method, path)
    ELSE IF Head(layers).ends THEN <<Head(layers).name>>
    ELSE <<Head(layers).name>> \o Dispatch(Tail(layers), method, path)

\* The layer that answers the request.
Handler(method, path) ==
    LET chain == Dispatch(Layers, method, path) IN chain[Len(chain)]

\* preventDbOperationsDuringLogout: answers 503 to a delete-account request
\* it sees while the flag is set, and calls next() otherwise.
LogoutGuardBlocks(method, path) ==
    /\ \E i \in DOMAIN Dispatch(Layers, method, path) :
           Dispatch(Layers, method, path)[i] = "preventDbOperationsDuringLogout"
    /\ isLogoutInProgress
    /\ path = "/api/delete-account"

\* The proxy around pool.query: a statement with DELETE FROM is not sent
\* while the flag is set, and an empty result is returned for it.
QueryBlocked(command) == isLogoutInProgress /\ command = "DELETE FROM"

\* ------------------------------------------ POST /api/assignment-requests
\* A value of the JSON body: undefined, a number (kept in tenths: v10 of 25
\* is 2.5), a text (its characters, sign-less), or a text that Date.parse
\* reads (the day it names).  course_name, course_code and assignment_type
\* are texts of one repeated character: they are kept as their length, 0
\* for an absent or empty one.
Undefined == [t |-> "undefined", v10 |-> 0, s |-> <<>>, day |-> 0, form |-> ""]
Num(v10) == [t |-> "number", v10 |-> v10, s |-> <<>>, day |-> 0, form |-> ""]
Str(s) == [t |-> "string", v10 |-> 0, s |-> s, day |-> 0, form |-> ""]
\* form: "local" as a date field of the page writes it, "iso" as
\* toISOString does.
DateText(day, form) == [t |-> "date", v10 |-> 0, s |-> <<>>, day |-> day, form |-> form]

\* !value
Falsy(value) ==
    \/ value.t = "undefined"
    \/ value.t = "number" /\ value.v10 = 0
    \/ value.t = "string" /\ value.s = <<>>

\* parseInt(value): the text of a number is cut at the decimal point.
ParseIntOf(value) ==
    CASE value.t = "number" ->
             [nan |-> FALSE,
              v |-> IF value.v10 >= 0 THEN value.v10 \div 10 ELSE 0 - ((0 - value.v10) \div 10)]
      [] value.t = "string" /\ ParseInt(value.s) # NaN ->
             [nan |-> FALSE, v |-> ParseInt(value.s)]
      [] OTHER -> [nan |-> TRUE, v |-> 0]

\* parseFloat(value), in tenths: a number is itself, a text the number its
\* leading digits spell.
ParseFloatOf(value) ==
    CASE value.t = "number" -> [nan |-> FALSE, v10 |-> value.v10]
      [] value.t = "string" /\ ParseInt(value.s) # NaN ->
             [nan |-> FALSE, v10 |-> 10 * ParseInt(value.s)]
      [] OTHER -> [nan |-> TRUE, v10 |-> 0]

MaxCourseName == 255
MaxCourseCode == 50
MaxAssignmentType == 100
CostUnit == 50

\* text.substring(0, limit)
Substring(length, limit) == IF length > limit THEN limit ELSE length

\* RoundToCostUnit rounding to the nearest multiple of 10.
RoundToCostUnit_NearestTen(v10) == ((v10 + 50) \div 100) * 10

\* Math.round(parseFloat(estimated_cost) / 50) * 50: Math.round takes a
\* half up.
RoundToCostUnit(v10) == ((v10 + 5 * CostUnit) \div (10 * CostUnit)) * CostUnit

\* formattedDeadline: new Date(deadline).toISOString() of a deadline that
\* Date.parse reads, the value as it came otherwise.
FormattedDeadline(deadline) ==
    IF deadline.t = "date" THEN [deadline EXCEPT !.form = "iso"] ELSE deadline

\* A timestamp column takes the text of a date and nothing else.
TimestampColumnTakes(value) == value.t = "date"

SanitizedData(u, body) ==
    [client_id |-> u,
     course_name |-> Substring(body.course_name, MaxCourseName),
     course_code |-> Substring(body.course_code, MaxCourseCode),
     assignment_type |-> Substring(body.assignment_type, MaxAssignmentType),
     num_pages |-> ParseIntOf(body.num_pages).v,
     deadline |-> FormattedDeadline(body.deadline),
     estimated_cost |-> RoundToCostUnit(ParseFloatOf(body.estimated_cost).v10)]

\* The row of INSERT INTO assignment_requests (...) VALUES (..., 'open').
RequestRow(id, data, created_at) ==
    [id |-> id, client_id |-> data.client_id, course_name |-> data.course_name,
     course_code |-> data.course_code, assignment_type |-> data.assignment_type,
     num_pages |-> data.num_pages, deadline |-> data.deadline.day,
     estimated_cost |-> data.estimated_cost, status |-> "open", created_at |-> created_at]

\* The body the page sends for a filled form: CS101, 5 pages, cost 100, due
\* in a week.
FormBody(today) ==
    [course_name |-> 20, course_code |-> 5, assignment_type |-> 10, num_pages |-> Num(50),
     deadline |-> DateText(today + 7, "local"), estimated_cost |-> Num(1000)]

\* The answer of the checks before the INSERT, status 0 when they pass.
CreateChecks(body) ==
    IF \/ body.course_name = 0 \/ body.course_code = 0 \/ body.assignment_type = 0
       \/ Falsy(body.num_pages) \/ Falsy(body.deadline) \/ Falsy(body.estimated_cost)
    THEN [status |-> 400, error |-> "All fields are required"]
    ELSE IF ParseIntOf(body.num_pages).nan \/ ParseFloatOf(body.estimated_cost).nan
    THEN [status |-> 400, error |-> "Number of pages and estimated cost must be numbers"]
    ELSE IF body.course_name > MaxCourseName
    THEN [status |-> 400, error |-> "Course name must be less than 255 characters"]
    ELSE IF body.course_code > MaxCourseCode
    THEN [status |-> 400, error |-> "Course code must be less than 50 characters"]
    ELSE IF body.assignment_type > MaxAssignmentType
    THEN [status |-> 400, error |-> "Assignment type must be less than 100 characters"]
    ELSE [status |-> 0]

Create(u, body) ==
    /\ Authenticated(u)
    /\ LET checks == CreateChecks(body)
           data == SanitizedData(u, body)
           row == RequestRow(nextRequestId, data, now)
           call == [NoServed EXCEPT !.op = "create", !.user = u, !.body = body] IN
        IF checks.status # 0
        THEN /\ served' = [call EXCEPT !.res = checks]
             /\ UNCHANGED <<requests, nextRequestId>>
        ELSE IF ~ TimestampColumnTakes(data.deadline)
        THEN /\ served' = [call EXCEPT !.res = [status |-> 500, error |-> "Server error: "]]
             /\ UNCHANGED <<requests, nextRequestId>>
        ELSE /\ nextRequestId <= MaxRequests
             /\ requests' = requests \cup {row}
             /\ nextRequestId' = nextRequestId + 1
             /\ served' = [call EXCEPT !.res = [status |-> 201, request |-> row]]
    /\ UNCHANGED <<memory, ratings, host, now, users, assignments, nextAssignmentId, calls>>

\* -------------------------------- POST /api/assignment-requests/:id/accept
AcceptPcs == {"writer", "request", "client", "insert", "update"}

AcceptStart(c, u, rid) ==
    /\ Idle(c)
    /\ Authenticated(u)
    /\ StartCall(c, "accept", "writer", u, rid)
    /\ UNCHANGED <<memory, served, ratings, host, now, users, requests, assignments, nextRequestId, nextAssignmentId>>

\* AcceptWriter with the status check letting only 'active' through.
AcceptWriter_ActiveOnly(c) ==
    /\ calls[c].op = "accept" /\ calls[c].pc = "writer"
    /\ LET writerResult == UserById(calls[c].user) IN
        IF writerResult = {}
        THEN Finish(c, [status |-> 404, error |-> "Writer not found"])
        ELSE LET writerStatus == (CHOOSE w \in writerResult : TRUE).writer_status IN
             IF writerStatus # "active"
             THEN Finish(c, [status |-> 400, error |-> "You must set your writer status to Active or Busy before accepting assignments"])
             ELSE Goto(c, "request")
    /\ UNCHANGED <<memory, served, ratings, host, now, users, requests, assignments, nextRequestId, nextAssignmentId>>

\* SELECT writer_status FROM users WHERE id = $1, and the two checks on it
AcceptWriter(c) ==
    /\ calls[c].op = "accept" /\ calls[c].pc = "writer"
    /\ LET writerResult == UserById(calls[c].user) IN
        IF writerResult = {}
        THEN Finish(c, [status |-> 404, error |-> "Writer not found"])
        ELSE LET writerStatus == (CHOOSE w \in writerResult : TRUE).writer_status IN
             IF writerStatus # "active" /\ writerStatus # "busy"
             THEN Finish(c, [status |-> 400, error |-> "You must set your writer status to Active or Busy before accepting assignments"])
             ELSE Goto(c, "request")
    /\ UNCHANGED <<memory, served, ratings, host, now, users, requests, assignments, nextRequestId, nextAssignmentId>>

\* SELECT * FROM assignment_requests WHERE id = $1 AND status = 'open'
AcceptRequest(c) ==
    /\ calls[c].op = "accept" /\ calls[c].pc = "request"
    /\ LET requestResult == {r \in RequestById(calls[c].rid) : r.status = "open"} IN
        IF requestResult = {}
        THEN Finish(c, [status |-> 404, error |-> "Assignment request not found or already accepted"])
        ELSE LET request == CHOOSE r \in requestResult : TRUE IN
             calls' = [calls EXCEPT ![c].pc = "client",
                                    ![c].client = [id |-> request.client_id]]
    /\ UNCHANGED <<memory, served, ratings, host, now, users, requests, assignments, nextRequestId, nextAssignmentId>>

\* SELECT id, name, whatsapp_number FROM users WHERE id = $1
AcceptClient(c) ==
    /\ calls[c].op = "accept" /\ calls[c].pc = "client"
    /\ LET clientResult == UserById(calls[c].client.id) IN
        IF clientResult = {}
        THEN Finish(c, [status |-> 404, error |-> "Client not found"])
        ELSE LET row == CHOOSE u \in clientResult : TRUE IN
             calls' = [calls EXCEPT ![c].pc = "insert",
                                    ![c].client = [id |-> row.id, name |-> row.name,
                                                   whatsapp_number |-> row.whatsapp_number]]
    /\ UNCHANGED <<memory, served, ratings, host, now, users, requests, assignments, nextRequestId, nextAssignmentId>>

\* INSERT INTO assignments (request_id, writer_id, client_id, status, created_at)
AcceptInsert(c) ==
    /\ calls[c].op = "accept" /\ calls[c].pc = "insert"
    /\ assignments' = assignments \cup
           {[id |-> nextAssignmentId, request_id |-> calls[c].rid,
             writer_id |-> calls[c].user, client_id |-> calls[c].client.id,
             status |-> "in_progress", completed_at |-> {}]}
    /\ nextAssignmentId' = nextAssignmentId + 1
    /\ Goto(c, "update")
    /\ UNCHANGED <<memory, served, ratings, host, now, users, requests, nextRequestId>>

\* whatsappRedirect of a number stored in the direct format, with the
\* fallbacks of the response: whatsappRedirect || client.whatsapp_number || null
WhatsappRedirect(whatsapp_number) ==
    IF whatsapp_number = NULL THEN NULL
    ELSE IF StripNonDigits(whatsapp_number) # <<>> THEN StripNonDigits(whatsapp_number)
    ELSE whatsapp_number

\* AcceptResponse with the stored number passed on unconverted.
AcceptResponse_RawRedirect(client) ==
    [status |-> 200, success |-> TRUE, message |-> "Assignment assigned successfully",
     client_id |-> client.id, client_name |-> client.name,
     client_whatsapp |-> client.whatsapp_number,
     client_whatsapp_redirect |-> client.whatsapp_number]

\* res.json of the success path
AcceptResponse(client) ==
    [status |-> 200, success |-> TRUE, message |-> "Assignment assigned successfully",
     client_id |-> client.id, client_name |-> client.name,
     client_whatsapp |-> client.whatsapp_number,
     client_whatsapp_redirect |-> WhatsappRedirect(client.whatsapp_number)]

\* UPDATE assignment_requests SET status = 'assigned' WHERE id = $1, then res.json
AcceptUpdate(c) ==
    /\ calls[c].op = "accept" /\ calls[c].pc = "update"
    /\ requests' = {IF r.id = calls[c].rid THEN [r EXCEPT !.status = "assigned"] ELSE r
                        : r \in requests}
    /\ Finish(c, AcceptResponse(calls[c].client))
    /\ UNCHANGED <<memory, served, ratings, host, now, users, assignments, nextRequestId, nextAssignmentId>>

\* AcceptFail with a catch block that puts the request back to 'open'.
AcceptFail_Reopen(c) ==
    /\ calls[c].op = "accept" /\ calls[c].pc \in AcceptPcs
    /\ requests' = {IF r.id = calls[c].rid THEN [r EXCEPT !.status = "open"] ELSE r
                        : r \in requests}
    /\ Finish(c, [status |-> 500, error |-> "Server error: "])
    /\ UNCHANGED <<memory, served, ratings, host, now, users, assignments, nextRequestId, nextAssignmentId>>

\* A query of the handler rejects (connection lost, pool timeout): the catch
\* block answers 500 and nothing that was written is undone.
AcceptFail(c) ==
    /\ calls[c].op = "accept" /\ calls[c].pc \in AcceptPcs
    /\ Finish(c, [status |-> 500, error |-> "Server error: "])
    /\ UNCHANGED <<memory, served, ratings, host, now, users, requests, assignments, nextRequestId, nextAssignmentId>>

\* ------------------------------------- DELETE /api/assignment-requests/:id
DeleteStart(c, u, rid) ==
    /\ Idle(c)
    /\ Authenticated(u)
    /\ StartCall(c, "delete", "check", u, rid)
    /\ UNCHANGED <<memory, served, ratings, host, now, users, requests, assignments, nextRequestId, nextAssignmentId>>

\* DeleteCheck without the check of the status.
DeleteCheck_NoStatusCheck(c) ==
    /\ calls[c].op = "delete" /\ calls[c].pc = "check"
    /\ LET checkRequest == RequestById(calls[c].rid) IN
        IF checkRequest = {}
        THEN Finish(c, [status |-> 404, error |-> "Assignment request not found"])
        ELSE LET row == CHOOSE r \in checkRequest : TRUE IN
             IF row.client_id # calls[c].user
             THEN Finish(c, [status |-> 403, error |-> "You can only delete your own assignment requests"])
             ELSE Goto(c, "delete")
    /\ UNCHANGED <<memory, served, ratings, host, now, users, requests, assignments, nextRequestId, nextAssignmentId>>

\* SELECT client_id, status FROM assignment_requests WHERE id = $1, and the
\* three checks on the row it returns
DeleteCheck(c) ==
    /\ calls[c].op = "delete" /\ calls[c].pc = "check"
    /\ LET checkRequest == RequestById(calls[c].rid) IN
        IF checkRequest = {}
        THEN Finish(c, [status |-> 404, error |-> "Assignment request not found"])
        ELSE LET row == CHOOSE r \in checkRequest : TRUE IN
             IF row.client_id # calls[c].user
             THEN Finish(c, [status |-> 403, error |-> "You can only delete your own assignment requests"])
             ELSE IF row.status # "open"
             THEN Finish(c, [status |-> 403, error |-> "You cannot delete an assignment request that has already been assigned"])
             ELSE Goto(c, "delete")
    /\ UNCHANGED <<memory, served, ratings, host, now, users, requests, assignments, nextRequestId, nextAssignmentId>>

\* DELETE FROM assignment_requests WHERE id = $1 through pool.query, COMMIT,
\* res.json
DeleteExec(c) ==
    /\ calls[c].op = "delete" /\ calls[c].pc = "delete"
    /\ requests' = IF QueryBlocked("DELETE FROM") THEN requests
                   ELSE requests \ RequestById(calls[c].rid)
    /\ Finish(c, [status |-> 200, message |-> "Assignment request deleted successfully"])
    /\ UNCHANGED <<memory, served, ratings, host, now, users, assignments, nextRequestId, nextAssignmentId>>

\* A query of the handler rejects: ROLLBACK and 500.
DeleteFail(c) ==
    /\ calls[c].op = "delete" /\ calls[c].pc \in {"check", "delete"}
    /\ Finish(c, [status |-> 500, error |-> "Server error"])
    /\ UNCHANGED <<memory, served, ratings, host, now, users, requests, assignments, nextRequestId, nextAssignmentId>>

\* ------------------------------------------- GET /api/assignment-requests
\* The orders ORDER BY created_at DESC may return the rows in.
RECURSIVE Orderings(_)
Orderings(rows) ==
    IF rows = {} THEN {<<>>}
    ELSE UNION {{<<r>> \o rest : rest \in Orderings(rows \ {r})} :
                    r \in {x \in rows : \A y \in rows : x.created_at >= y.created_at}}

\* One row of the response: the request's columns and the client's public
\* profile of the JOIN.
ListedRow(r) ==
    LET u == CHOOSE x \in UserById(r.client_id) : TRUE IN
    [id |-> r.id, client |-> [id |-> u.id, name |-> u.name],
     course_name |-> r.course_name, course_code |-> r.course_code,
     assignment_type |-> r.assignment_type, num_pages |-> r.num_pages,
     deadline |-> r.deadline, estimated_cost |-> r.estimated_cost,
     status |-> r.status, created_at |-> r.created_at]

\* sevenDaysAgo.setDate(sevenDaysAgo.getDate() - ASSIGNMENT_EXPIRATION_DAYS)
SevenDaysAgo == now - ASSIGNMENT_EXPIRATION_DAYS

\* FROM assignment_requests ar JOIN users u ON u.id = ar.client_id
\* WHERE ar.status = 'open' AND ar.created_at > $1
OpenUnexpired ==
    {r \in requests : /\ UserById(r.client_id) # {}
                      /\ r.status = "open"
                      /\ r.created_at > SevenDaysAgo}

ListOpen(c, u) ==
    /\ Idle(c)
    /\ Authenticated(u)
    /\ \E rows \in Orderings(OpenUnexpired) :
         calls' = [calls EXCEPT ![c] = [IdleCall EXCEPT !.op = "list", !.pc = "done", !.user = u,
                       !.res = [status |-> 200, rows |-> [i \in DOMAIN rows |-> ListedRow(rows[i])]]]]
    /\ UNCHANGED <<memory, served, ratings, host, now, users, requests, assignments, nextRequestId, nextAssignmentId>>

\* The second definition of the route:
\* FROM assignment_requests ar JOIN users u ON u.id = ar.client_id
\* WHERE ar.status = 'open'
OpenSecond ==
    {r \in requests : /\ UserById(r.client_id) # {}
                      /\ r.status = "open"}

ListOpenSecond(c, u) ==
    /\ Idle(c)
    /\ Authenticated(u)
    /\ \E rows \in Orderings(OpenSecond) :
         calls' = [calls EXCEPT ![c] = [IdleCall EXCEPT !.op = "list", !.pc = "done", !.user = u,
                       !.res = [status |-> 200, rows |-> [i \in DOMAIN rows |-> ListedRow(rows[i])]]]]
    /\ UNCHANGED <<memory, served, ratings, host, now, users, requests, assignments, nextRequestId, nextAssignmentId>>

\* ------------------------------- cron.schedule expired-request cleanup
\* '0 0 * * *': the job fires at midnight, once for a day of the clock.
CronDue == host.serving /\ host.cronFired < now

\* ExpireStale with the status left out of the WHERE clause.
ExpireStale_AnyStatus ==
    /\ CronDue
    /\ requests' = {r \in requests : ~(r.created_at < SevenDaysAgo)}
    /\ host' = [host EXCEPT !.cronFired = now, !.sweeps = @ + 1, !.sweptAt = now,
                            !.log = [kind |-> "deleted",
                                     count |-> Cardinality(requests \ requests')]]
    /\ UNCHANGED <<memory, served, ratings, now, users, assignments, nextRequestId, nextAssignmentId, calls>>

\* The open requests created before the cutoff.
ExpiredOpen == {r \in requests : r.status = "open" /\ r.created_at < SevenDaysAgo}

\* ExpireStale deleting one expired row a run.
ExpireStale_OneRow ==
    /\ CronDue
    /\ requests' = requests \ {r \in ExpiredOpen : \A x \in ExpiredOpen : r.id <= x.id}
    /\ host' = [host EXCEPT !.cronFired = now, !.sweeps = @ + 1, !.sweptAt = now,
                            !.log = [kind |-> "deleted",
                                     count |-> Cardinality(requests \ requests')]]
    /\ UNCHANGED <<memory, served, ratings, now, users, assignments, nextRequestId, nextAssignmentId, calls>>

\* DELETE FROM assignment_requests WHERE status = 'open' AND created_at < $2
\* RETURNING id, and the line the job logs
ExpireStale ==
    /\ CronDue
    /\ requests' = requests \ ExpiredOpen
    /\ host' = [host EXCEPT !.cronFired = now, !.sweeps = @ + 1, !.sweptAt = now,
                            !.log = [kind |-> "deleted",
                                     count |-> Cardinality(requests \ requests')]]
    /\ UNCHANGED <<memory, served, ratings, now, users, assignments, nextRequestId, nextAssignmentId, calls>>

\* ExpireStaleFail with the job left due, so that it runs again at once.
ExpireStaleFail_Retry ==
    /\ CronDue
    /\ host' = [host EXCEPT !.errors = @ + 1, !.log = [kind |-> "error", count |-> 0]]
    /\ UNCHANGED <<memory, served, ratings, now, users, requests, assignments, nextRequestId,
                   nextAssignmentId, calls>>

\* The DELETE of the job rejects: the catch block logs the error.
ExpireStaleFail ==
    /\ CronDue
    /\ host' = [host EXCEPT !.cronFired = now, !.errors = @ + 1,
                            !.log = [kind |-> "error", count |-> 0]]
    /\ UNCHANGED <<memory, served, ratings, now, users, requests, assignments, nextRequestId,
                   nextAssignmentId, calls>>

\* --------------------------------------------------------- GET /auth/logout
\* The handler that answers GET /auth/logout starts: the later registration
\* sets the flag; req.logout(...) has been called and has not called back.
LogoutStart(c) ==
    /\ Idle(c)
    /\ LET handler == Handler("GET", "/auth/logout") IN
        /\ calls' = [calls EXCEPT ![c] = [IdleCall EXCEPT !.op = handler, !.pc = "logout"]]
        /\ isLogoutInProgress' = IF handler = "logoutWithFlag" THEN TRUE
                                 ELSE isLogoutInProgress
    /\ UNCHANGED <<session, loginAttempts, loginLog, served, ratings, host, now, users,
                   requests, assignments, nextRequestId, nextAssignmentId>>

\* req.logout called back without an error: the session is destroyed and
\* 'Logged out successfully' is sent, or, in the later registration, the
\* session is saved as logged out, the flag is reset and the redirect is sent;
\* either way the session that req.logout regenerated holds no user.
LogoutDone(c) ==
    /\ calls[c].op \in {"logout", "logoutWithFlag"} /\ calls[c].pc = "logout"
    /\ IF calls[c].op = "logout"
       THEN /\ Finish(c, [status |-> 200, message |-> "Logged out successfully"])
            /\ UNCHANGED isLogoutInProgress
       ELSE /\ Finish(c, [status |-> 302, location |-> "/logout-complete.html"])
            /\ isLogoutInProgress' = FALSE
    /\ session' = NoSession
    /\ UNCHANGED <<loginAttempts, loginLog, served, ratings, host, now, users, requests,
                   assignments, nextRequestId, nextAssignmentId>>

\* req.logout called back with an error.
LogoutFail(c) ==
    /\ calls[c].op \in {"logout", "logoutWithFlag"} /\ calls[c].pc = "logout"
    /\ IF calls[c].op = "logout"
       THEN /\ Finish(c, [status |-> 500, error |-> "Logout failed"])
            /\ UNCHANGED isLogoutInProgress
       ELSE /\ Finish(c, [status |-> 500, error |-> "Failed to logout"])
            /\ isLogoutInProgress' = FALSE
    /\ UNCHANGED <<session, loginAttempts, loginLog, served, ratings, host, now, users,
                   requests, assignments, nextRequestId, nextAssignmentId>>

\* ------------------------------------------- DELETE /api/delete-account
DELETE_MY_ACCOUNT_PERMANENTLY == "DELETE_MY_ACCOUNT_PERMANENTLY"

\* confirmDelete of the body: absent or empty, a wrong text, the text in
\* another case, the confirmation.
ConfirmInputs == {"", "yes", "delete_my_account_permanently", DELETE_MY_ACCOUNT_PERMANENTLY}

\* After COMMIT: the answer once req.logout and session.destroy called back,
\* or the answer to an error of req.logout.
AfterCommit(logoutError) ==
    IF logoutError THEN [status |-> 500, error |-> "Error during logout"]
    ELSE [status |-> 200, message |-> "Account deleted successfully"]

\* DeleteAccount taking any confirmDelete that is present.
DeleteAccount_AnyConfirmation(u, confirmDelete, logoutError) ==
    /\ Authenticated(u)
    /\ LET call == [NoServed EXCEPT !.op = "delete-account", !.user = u,
                                    !.body = [confirmDelete |-> confirmDelete]] IN
        IF LogoutGuardBlocks("DELETE", "/api/delete-account")
        THEN /\ served' = [call EXCEPT !.res = [status |-> 503,
                     error |-> "Service temporarily unavailable during logout process"]]
             /\ UNCHANGED <<ratings, assignments, requests, users>>
        ELSE IF confirmDelete = ""
        THEN /\ served' = [call EXCEPT !.res = [status |-> 400,
                     error |-> "Proper confirmation required to delete account"]]
             /\ UNCHANGED <<ratings, assignments, requests, users>>
        ELSE /\ ratings' = {g \in ratings : g.rater_id # u /\ g.rated_id # u}
             /\ assignments' = {a \in assignments : a.writer_id # u /\ a.client_id # u}
             /\ requests' = {r \in requests : r.client_id # u}
             /\ users' = users \ UserById(u)
             /\ served' = [call EXCEPT !.res = AfterCommit(logoutError)]
    /\ UNCHANGED <<memory, host, now, nextRequestId, nextAssignmentId, calls>>

\* The confirmation check, then the deletes of the transaction on the
\* client of pool.connect(), in the order of the handler: ratings by
\* rater_id, ratings by rated_id, assignments by writer_id, assignments by
\* client_id, assignment_requests by client_id, the user; COMMIT, and the
\* answer after the session is destroyed.  logoutError: req.logout calls
\* back with an error.
DeleteAccount(u, confirmDelete, logoutError) ==
    /\ Authenticated(u)
    /\ LET call == [NoServed EXCEPT !.op = "delete-account", !.user = u,
                                    !.body = [confirmDelete |-> confirmDelete]] IN
        IF LogoutGuardBlocks("DELETE", "/api/delete-account")
        THEN /\ served' = [call EXCEPT !.res = [status |-> 503,
                     error |-> "Service temporarily unavailable during logout process"]]
             /\ UNCHANGED <<ratings, assignments, requests, users>>
        ELSE IF confirmDelete = "" \/ confirmDelete # DELETE_MY_ACCOUNT_PERMANENTLY
        THEN /\ served' = [call EXCEPT !.res = [status |-> 400,
                     error |-> "Proper confirmation required to delete account"]]
             /\ UNCHANGED <<ratings, assignments, requests, users>>
        ELSE /\ ratings' = {g \in ratings : g.rater_id # u /\ g.rated_id # u}
             /\ assignments' = {a \in assignments : a.writer_id # u /\ a.client_id # u}
             /\ requests' = {r \in requests : r.client_id # u}
             /\ users' = users \ UserById(u)
             /\ served' = [call EXCEPT !.res = AfterCommit(logoutError)]
    /\ UNCHANGED <<memory, host, now, nextRequestId, nextAssignmentId, calls>>

\* A statement of the transaction rejects: ROLLBACK on the same client, the
\* client is released and the handler answers 500.
DeleteAccountFail(u) ==
    /\ Authenticated(u)
    /\ ~ LogoutGuardBlocks("DELETE", "/api/delete-account")
    /\ served' = [NoServed EXCEPT !.op = "delete-account", !.user = u,
                      !.body = [confirmDelete |-> DELETE_MY_ACCOUNT_PERMANENTLY],
                      !.res = [status |-> 500, error |-> "Failed to delete account"]]
    /\ UNCHANGED <<memory, ratings, assignments, requests, users, host, now, nextRequestId,
                   nextAssignmentId, calls>>

\* ------------------------------------------------------- POST /api/ratings
\* rated_id as it arrives in the body: the text of a user id, or a text that
\* starts with one.
RatedInputs == {<<"1">>, <<"2">>, <<"3">>, <<"2", "x">>}
Scores == {2, 5}

\* The text is one the database takes for an integer column or parameter.
IsDbInteger(text) == text # <<>> /\ \A i \in DOMAIN text : text[i] \in Digits

\* The unique constraint on ratings (rater_id, assignment_request_id): an
\* INSERT of a second row for the pair is rejected.
RatingPairFree(rater, rid) ==
    ~ \E g \in ratings : g.rater_id = rater /\ g.assignment_request_id = rid

RatingsOf(rows, rated) == {g \in rows : g.rated_id = rated}

RECURSIVE SumOfRatings(_)
SumOfRatings(rows) ==
    IF rows = {} THEN 0
    ELSE LET g == CHOOSE x \in rows : TRUE IN g.rating + SumOfRatings(rows \ {g})

\* AVG(rating)::numeric(3,2), in hundredths: rounded half up.
AvgRating(rows) ==
    (200 * SumOfRatings(rows) + Cardinality(rows)) \div (2 * Cardinality(rows))

RatingPcs == {"select", "upsert", "aggregate", "complete"}

\* RatingStart without the check of parseInt(rated_id) against the rater.
RatingStart_NoSelfCheck(c, u, rated_id, rating, rid) ==
    /\ Idle(c)
    /\ Authenticated(u)
    /\ LET call == [IdleCall EXCEPT !.op = "rating", !.user = u, !.rid = rid,
                                    !.body = [rated_id |-> rated_id, rating |-> rating]] IN
        IF rated_id = <<>> \/ rating = 0 \/ rid = 0
        THEN calls' = [calls EXCEPT ![c] = [call EXCEPT !.pc = "done",
                          !.res = [status |-> 400, error |-> "Missing required fields"]]]
        ELSE calls' = [calls EXCEPT ![c] = [call EXCEPT !.pc = "select"]]
    /\ UNCHANGED <<memory, served, ratings, host, now, users, requests, assignments, nextRequestId,
                   nextAssignmentId>>

\* The checks before the first query: required fields, then self-rating.
RatingStart(c, u, rated_id, rating, rid) ==
    /\ Idle(c)
    /\ Authenticated(u)
    /\ LET call == [IdleCall EXCEPT !.op = "rating", !.user = u, !.rid = rid,
                                    !.body = [rated_id |-> rated_id, rating |-> rating]] IN
        IF rated_id = <<>> \/ rating = 0 \/ rid = 0
        THEN calls' = [calls EXCEPT ![c] = [call EXCEPT !.pc = "done",
                          !.res = [status |-> 400, error |-> "Missing required fields"]]]
        ELSE IF ParseInt(rated_id) = u
        THEN calls' = [calls EXCEPT ![c] = [call EXCEPT !.pc = "done",
                          !.res = [status |-> 403, error |-> "You cannot rate yourself"]]]
        ELSE calls' = [calls EXCEPT ![c] = [call EXCEPT !.pc = "select"]]
    /\ UNCHANGED <<memory, served, ratings, host, now, users, requests, assignments, nextRequestId,
                   nextAssignmentId>>

\* SELECT id FROM ratings WHERE rater_id = $1 AND assignment_request_id = $2
RatingSelect(c) ==
    /\ calls[c].op = "rating" /\ calls[c].pc = "select"
    /\ calls' = [calls EXCEPT ![c].pc = "upsert",
                              ![c].existingRating = ~RatingPairFree(calls[c].user, calls[c].rid)]
    /\ UNCHANGED <<memory, served, ratings, host, now, users, requests, assignments, nextRequestId,
                   nextAssignmentId>>

\* RatingUpsert with an UPDATE that leaves the score of the row.
RatingUpsert_KeepScore(c) ==
    /\ calls[c].op = "rating" /\ calls[c].pc = "upsert"
    /\ IF calls[c].existingRating
       THEN ratings' = ratings
       ELSE /\ IsDbInteger(calls[c].body.rated_id)
            /\ RatingPairFree(calls[c].user, calls[c].rid)
            /\ ratings' = ratings \cup
                   {[rater_id |-> calls[c].user, rated_id |-> ParseInt(calls[c].body.rated_id),
                     assignment_request_id |-> calls[c].rid, rating |-> calls[c].body.rating]}
    /\ Goto(c, "aggregate")
    /\ UNCHANGED <<memory, served, host, now, users, requests, assignments, nextRequestId, nextAssignmentId>>

\* UPDATE ratings SET rating = $1, comment = $2 WHERE rater_id = $3 AND
\* assignment_request_id = $4, or INSERT INTO ratings (rater_id, rated_id,
\* rating, comment, assignment_request_id)
RatingUpsert(c) ==
    /\ calls[c].op = "rating" /\ calls[c].pc = "upsert"
    /\ IF calls[c].existingRating
       THEN ratings' = {IF g.rater_id = calls[c].user /\ g.assignment_request_id = calls[c].rid
                        THEN [g EXCEPT !.rating = calls[c].body.rating] ELSE g : g \in ratings}
       ELSE /\ IsDbInteger(calls[c].body.rated_id)
            /\ RatingPairFree(calls[c].user, calls[c].rid)
            /\ ratings' = ratings \cup
                   {[rater_id |-> calls[c].user, rated_id |-> ParseInt(calls[c].body.rated_id),
                     assignment_request_id |-> calls[c].rid, rating |-> calls[c].body.rating]}
    /\ Goto(c, "aggregate")
    /\ UNCHANGED <<memory, served, host, now, users, requests, assignments, nextRequestId, nextAssignmentId>>

\* WITH rating_stats AS (SELECT rated_id, AVG(rating)::numeric(3,2), COUNT(*)
\* FROM ratings WHERE rated_id = $1 GROUP BY rated_id) UPDATE users SET rating,
\* total_ratings FROM rating_stats WHERE users.id = rating_stats.rated_id
RatingAggregate(c) ==
    /\ calls[c].op = "rating" /\ calls[c].pc = "aggregate"
    /\ IsDbInteger(calls[c].body.rated_id)
    /\ LET rated == ParseInt(calls[c].body.rated_id)
           rows == RatingsOf(ratings, rated) IN
       users' = {IF u.id = rated /\ rows # {}
                 THEN [u EXCEPT !.rating = AvgRating(rows),
                                !.total_ratings = Cardinality(rows)]
                 ELSE u : u \in users}
    /\ Goto(c, "complete")
    /\ UNCHANGED <<memory, served, ratings, host, now, requests, assignments, nextRequestId,
                   nextAssignmentId>>

\* UPDATE assignments SET status = 'completed', completed_at = CURRENT_TIMESTAMP
\* FROM assignment_requests ar WHERE ar.id = $1 AND assignments.request_id =
\* ar.id, then COMMIT and res.status(201)
RatingComplete(c) ==
    /\ calls[c].op = "rating" /\ calls[c].pc = "complete"
    /\ assignments' = {IF a.request_id = calls[c].rid /\ RequestById(calls[c].rid) # {}
                       THEN [a EXCEPT !.status = "completed", !.completed_at = {now}]
                       ELSE a : a \in assignments}
    /\ Finish(c, [status |-> 201,
                  message |-> "Rating submitted successfully and assignment marked as completed"])
    /\ UNCHANGED <<memory, served, ratings, host, now, users, requests, nextRequestId, nextAssignmentId>>

\* A query of the handler rejects: ROLLBACK through the pool and 500; the
\* statements that ran before stay applied.
RatingFail(c) ==
    /\ calls[c].op = "rating" /\ calls[c].pc \in RatingPcs
    /\ Finish(c, [status |-> 500, error |-> "Server error: "])
    /\ UNCHANGED <<memory, served, ratings, host, now, users, requests, assignments, nextRequestId,
                   nextAssignmentId>>

\* ------------------------------------------------------------ specification
RequestIds == 1..MaxRequests

\* Create, Accept, Delete and the account deletion: the handlers that read
\* neither the clock nor created_at.
NextLifecycle ==
    \/ \E u \in UserIds : Create(u, FormBody(now))
    \/ \E c \in Slots, u \in UserIds, rid \in RequestIds : AcceptStart(c, u, rid)
    \/ \E c \in Slots : AcceptWriter(c)
    \/ \E c \in Slots : AcceptRequest(c)
    \/ \E c \in Slots : AcceptClient(c)
    \/ \E c \in Slots : AcceptInsert(c)
    \/ \E c \in Slots : AcceptUpdate(c)
    \/ \E c \in Slots : AcceptFail(c)
    \/ \E c \in Slots, u \in UserIds, rid \in RequestIds : DeleteStart(c, u, rid)
    \/ \E c \in Slots : DeleteCheck(c)
    \/ \E c \in Slots : DeleteExec(c)
    \/ \E c \in Slots : DeleteFail(c)
    \/ \E u \in UserIds : DeleteAccount(u, DELETE_MY_ACCOUNT_PERMANENTLY, FALSE)

Next ==
    \/ NextLifecycle
    \/ Tick
    \/ \E c \in Slots, u \in UserIds : ListOpen(c, u)
    \/ \E c \in Slots, u \in UserIds : ListOpenSecond(c, u)
    \/ ExpireStale
    \/ ExpireStaleFail

Spec == Init /\ [][Next]_vars

\* The store without the passing of time: no request ever expires.
SpecLifecycle == Init /\ [][NextLifecycle]_vars

\* The job on a store filled earlier: client 1 created the requests on the
\* days CreatedAts before the process started, writer 2 accepted those that
\* are assigned and client 1 rated the writer 5 for each of them, and the
\* first midnight is due.
CreatedAts == {0 - ASSIGNMENT_EXPIRATION_DAYS - 1, 0 - ASSIGNMENT_EXPIRATION_DAYS,
               1 - ASSIGNMENT_EXPIRATION_DAYS, 0}

SweepIds == 1..MaxSweepRows

InitSweep ==
    /\ now = 0
    /\ \E present \in SUBSET SweepIds, status \in [SweepIds -> {"open", "assigned"}],
          created \in [SweepIds -> CreatedAts] :
        LET accepted == {i \in present : status[i] = "assigned"} IN
        /\ requests = {[RequestRow(i, SanitizedData(1, FormBody(created[i])), created[i])
                            EXCEPT !.status = status[i]] : i \in present}
        /\ assignments = {[id |-> i, request_id |-> i, writer_id |-> 2, client_id |-> 1,
                            status |-> "completed", completed_at |-> {0}] : i \in accepted}
        /\ ratings = {[rater_id |-> 1, rated_id |-> 2, assignment_request_id |-> i,
                        rating |-> 5] : i \in accepted}
        /\ users = {IF u = 2 /\ accepted # {}
                     THEN [UserRow(u) EXCEPT !.rating = 500,
                                             !.total_ratings = Cardinality(accepted)]
                     ELSE UserRow(u) : u \in UserIds}
    /\ nextRequestId = MaxSweepRows + 1
    /\ nextAssignmentId = MaxSweepRows + 1
    /\ calls = [c \in Slots |-> IdleCall]
    /\ host = [InitHost EXCEPT !.cronFired = 0 - 1]
    /\ InitMemory

\* The ratings of a request that client 1 created and writer 2 accepted.
InitRated ==
    /\ now = 0
    /\ users = {UserRow(u) : u \in UserIds}
    /\ requests = {[RequestRow(1, SanitizedData(1, FormBody(0)), 0)
                        EXCEPT !.status = "assigned"]}
    /\ assignments = {[id |-> 1, request_id |-> 1, writer_id |-> 2, client_id |-> 1,
                        status |-> "in_progress", completed_at |-> {}]}
    /\ nextRequestId = 2
    /\ nextAssignmentId = 2
    /\ calls = [c \in Slots |-> IdleCall]
    /\ ratings = {}
    /\ host = InitHost
    /\ InitMemory

NextRating ==
    \/ \E c \in Slots, u \in UserIds, rated_id \in RatedInputs, rating \in Scores,
          rid \in RequestIds : RatingStart(c, u, rated_id, rating, rid)
    \/ \E c \in Slots : RatingSelect(c)
    \/ \E c \in Slots : RatingUpsert(c)
    \/ \E c \in Slots : RatingAggregate(c)
    \/ \E c \in Slots : RatingComplete(c)
    \/ \E c \in Slots : RatingFail(c)
    \/ \E u \in UserIds : DeleteAccount(u, DELETE_MY_ACCOUNT_PERMANENTLY, FALSE)

SpecRating == InitRated /\ [][NextRating]_vars

NextSweep ==
    \/ Tick
    \/ ExpireStale
    \/ ExpireStaleFail

SpecSweep == InitSweep /\ [][NextSweep]_vars

\* The two listings of open requests against the clock and the expiration
\* job.
NextListing ==
    \/ \E u \in UserIds : Create(u, FormBody(now))
    \/ Tick
    \/ \E c \in Slots, u \in UserIds : ListOpen(c, u)
    \/ \E c \in Slots, u \in UserIds : ListOpenSecond(c, u)
    \/ ExpireStale
    \/ ExpireStaleFail

SpecListing == Init /\ [][NextListing]_vars

\* Account deletions on the store filled earlier, with every confirmDelete.
NextAccount ==
    \/ \E u \in UserIds, confirmDelete \in ConfirmInputs, logoutError \in BOOLEAN :
           DeleteAccount(u, confirmDelete, logoutError)
    \/ \E u \in UserIds : DeleteAccountFail(u)

SpecAccount == InitSweep /\ [][NextAccount]_vars

\* Logouts against the owner's Delete and the account deletion.
NextLogout ==
    \/ \E u \in UserIds : Create(u, FormBody(now))
    \/ \E c \in Slots : LogoutStart(c)
    \/ \E c \in Slots : LogoutDone(c)
    \/ \E c \in Slots : LogoutFail(c)
    \/ \E c \in Slots, u \in UserIds, rid \in RequestIds : DeleteStart(c, u, rid)
    \/ \E c \in Slots : DeleteCheck(c)
    \/ \E c \in Slots : DeleteExec(c)
    \/ \E c \in Slots : DeleteFail(c)
    \/ \E u \in UserIds : DeleteAccount(u, DELETE_MY_ACCOUNT_PERMANENTLY, FALSE)

SpecLogout == Init /\ [][NextLogout]_vars

\* One browser that signs in, enters guest mode and logs out, and calls the
\* mutating routes as whoever its session says.
NextGuest ==
    \/ GuestLogin
    \/ \E u \in UserIds : GoogleLogin(u)
    \/ \E c \in Slots : LogoutStart(c)
    \/ \E c \in Slots : LogoutDone(c)
    \/ \E c \in Slots : LogoutFail(c)
    \/ \E route \in MutatingRoutes : NotAuthenticated(route)
    \/ Create(session.user, FormBody(now))
    \/ \E c \in Slots, rid \in RequestIds : AcceptStart(c, session.user, rid)
    \/ \E c \in Slots, rid \in RequestIds : DeleteStart(c, session.user, rid)
    \/ DeleteAccount(session.user, DELETE_MY_ACCOUNT_PERMANENTLY, FALSE)

SpecGuest == Init /\ [][NextGuest]_vars

\* The lockout of security.js: its three functions called in any order, the
\* login callback that calls them, the hourly interval and the clock.
NextLogin ==
    \/ \E email \in Emails : IsAccountLocked(email)
    \/ \E email \in Emails : RecordFailedLogin(email)
    \/ \E email \in Emails : ResetLoginAttempts(email)
    \/ \E email \in Emails : GoogleCallbackFails(email)
    \/ CleanupLoginAttempts
    \/ \E minutes \in Waits : Wait(minutes)

SpecLogin == Init /\ [][NextLogin]_vars

\* Accept against the owner's Delete and the expiration job, without the
\* account deletion and the listings.
NextRace ==
    \/ \E u \in UserIds : Create(u, FormBody(now))
    \/ \E c \in Slots, u \in UserIds, rid \in RequestIds : AcceptStart(c, u, rid)
    \/ \E c \in Slots : AcceptWriter(c)
    \/ \E c \in Slots : AcceptRequest(c)
    \/ \E c \in Slots : AcceptClient(c)
    \/ \E c \in Slots : AcceptInsert(c)
    \/ \E c \in Slots : AcceptUpdate(c)
    \/ \E c \in Slots : AcceptFail(c)
    \/ \E c \in Slots, u \in UserIds, rid \in RequestIds : DeleteStart(c, u, rid)
    \/ \E c \in Slots : DeleteCheck(c)
    \/ \E c \in Slots : DeleteExec(c)
    \/ \E c \in Slots : DeleteFail(c)
    \/ Tick
    \/ ExpireStale
    \/ ExpireStaleFail

SpecRace == Init /\ [][NextRace]_vars


\* The bodies a caller of the API posts: the form, and the form with the
\* texts, the page count, the deadline or the cost replaced.
TextInputs ==
    {<<20, 5, 10>>, <<MaxCourseName, MaxCourseCode, MaxAssignmentType>>,
     <<0, 5, 10>>, <<20, 0, 10>>, <<20, 5, 0>>,
     <<MaxCourseName + 1, 5, 10>>, <<20, MaxCourseCode + 1, 10>>,
     <<20, 5, MaxAssignmentType + 1>>}
PageInputs ==
    {Undefined, Num(0), Num(50), Num(25), Num(0 - 30), Str(<<"5">>), Str(<<"5", "x">>),
     Str(<<"x">>)}
CostInputs ==
    {Undefined, Num(1000), Num(1200), Num(100), Num(0 - 1000), Str(<<"7", "5">>),
     Str(<<"x">>)}
DeadlineInputs ==
    {Undefined, DateText(7, "local"), DateText(7, "iso"), DateText(0 - 1, "local"),
     Str(<<"s", "o", "o", "n">>)}

BodyOf(texts, pages, deadline, cost) ==
    [course_name |-> texts[1], course_code |-> texts[2], assignment_type |-> texts[3],
     num_pages |-> pages, deadline |-> deadline, estimated_cost |-> cost]

Bodies ==
    LET form == FormBody(0)
        texts == <<form.course_name, form.course_code, form.assignment_type>> IN
    {BodyOf(t, form.num_pages, form.deadline, form.estimated_cost) : t \in TextInputs}
    \cup {BodyOf(texts, pages, form.deadline, form.estimated_cost) : pages \in PageInputs}
    \cup {BodyOf(texts, form.num_pages, deadline, form.estimated_cost) :
              deadline \in DeadlineInputs}
    \cup {BodyOf(texts, form.num_pages, form.deadline, cost) : cost \in CostInputs}

\* The creation of requests on the first day, with any of the bodies.
NextCreate ==
    \/ \E u \in UserIds, body \in Bodies : Create(u, body)

SpecCreate == Init /\ [][NextCreate]_vars

\* ================================================================== claims
AcceptSucceeded(c) ==
    calls[c].op = "accept" /\ calls[c].pc = "done" /\ calls[c].res.status = 200

AssignmentsOf(rid) == {a \in assignments : a.request_id = rid}

\* C1: two Accept calls by different writers on the same request never both
\* succeed: one of them is answered 'not found or already accepted'.
C1_AtMostOneAcceptSucceeds ==
    \A c, d \in Slots :
        (/\ c # d
         /\ AcceptSucceeded(c)
         /\ calls[d].op = "accept" /\ calls[d].pc = "done"
         /\ calls[c].rid = calls[d].rid
         /\ calls[c].user # calls[d].user)
        => calls[d].res.status # 200

\* C2: a request with status open is referenced by no assignment row, a
\* request with status assigned by exactly one.
C2_AssignmentCountMatchesStatus ==
    \A r \in requests :
        /\ r.status = "open" => Cardinality(AssignmentsOf(r.id)) = 0
        /\ r.status = "assigned" => Cardinality(AssignmentsOf(r.id)) = 1

\* C3: an Accept that failed leaves no assignment row of its own behind
\* while the request it named is still open.
C3_FailedAcceptLeavesNoInsert ==
    \A c \in Slots :
        (calls[c].op = "accept" /\ calls[c].pc = "done" /\ calls[c].res.status = 500)
        => ~ \E a \in AssignmentsOf(calls[c].rid), r \in RequestById(calls[c].rid) :
                a.writer_id = calls[c].user /\ r.status = "open"

\* C4: Accept checks (a) the writer's status, (b) the open request, (c) the
\* owning client, in this order; the first check that fails answers the call,
\* and a call rejected by a check has written neither an assignment nor a
\* request status.
EligibleWriter(u) ==
    \E w \in users : w.id = u /\ w.writer_status \in {"active", "busy"}

OpenRequest(rid) ==
    \E r \in requests : r.id = rid /\ r.status = "open"

RejectedWith(call, status, errors) ==
    call.pc = "done" /\ call.res.status = status /\ call.res.error \in errors

C4_AcceptChecksInOrder ==
    [][\A c \in Slots :
        (calls[c].op = "accept" /\ calls'[c] # calls[c] /\ calls'[c].res.status # 500) =>
            /\ calls[c].pc = "writer" =>
                 IF EligibleWriter(calls[c].user)
                 THEN calls'[c].pc = "request"
                 ELSE \/ RejectedWith(calls'[c], 404, {"Writer not found"})
                      \/ RejectedWith(calls'[c], 400, {"You must set your writer status to Active or Busy before accepting assignments"})
            /\ calls[c].pc = "request" =>
                 IF OpenRequest(calls[c].rid)
                 THEN calls'[c].pc = "client"
                 ELSE RejectedWith(calls'[c], 404, {"Assignment request not found or already accepted"})
            /\ calls[c].pc = "client" =>
                 IF UserById(calls[c].client.id) # {}
                 THEN calls'[c].pc = "insert"
                 ELSE RejectedWith(calls'[c], 404, {"Client not found"})
            /\ calls[c].pc \in {"insert", "update"} => calls'[c].res.status \notin {400, 404}
            /\ calls'[c].res.status \in {400, 404} =>
                 assignments' = assignments /\ requests' = requests
      ]_vars

\* An inactive writer was rejected for its status although the request it
\* named does not exist, and another writer's call ended at the third check.
C4_Witness ==
    \E c, d \in Slots :
        /\ calls[c].op = "accept" /\ calls[c].pc = "done" /\ calls[c].res.status = 400
        /\ RequestById(calls[c].rid) = {}
        /\ calls[d].op = "accept"
        /\ RejectedWith(calls[d], 404, {"Client not found"})
        /\ assignments = {}

ContactIn(call) ==
    IF "client_whatsapp" \in DOMAIN call.res THEN call.res.client_whatsapp ELSE NULL

C6_ContactOnlyToTheAcceptingWriter ==
    /\ \A c \in Slots :
        /\ (calls[c].op = "list" /\ calls[c].pc = "done") =>
               \A i \in DOMAIN calls[c].res.rows :
                   /\ "whatsapp_number" \notin DOMAIN calls[c].res.rows[i]
                   /\ "whatsapp_number" \notin DOMAIN calls[c].res.rows[i].client
        /\ (calls[c].op = "accept" /\ calls[c].pc = "done" /\ calls[c].res.status # 200) =>
               ContactIn(calls[c]) = NULL
    /\ \A c, d \in Slots :
        (/\ calls[c].op = "accept" /\ calls[d].op = "accept"
         /\ calls[c].rid = calls[d].rid
         /\ ContactIn(calls[c]) # NULL /\ ContactIn(calls[d]) # NULL) =>
            calls[c].user = calls[d].user

\* C7: a ListOpen response has exactly the open requests inside the retention
\* window, newest first: none older than the window, none that is not open,
\* and every open request younger than the window.
Age(r) == now - r.created_at

C7_ListOpenExact ==
    [][\A c \in Slots :
        (calls[c].op = "none" /\ calls'[c].op = "list") =>
            LET rows == calls'[c].res.rows
                ids == {rows[i].id : i \in DOMAIN rows} IN
            /\ \A i \in DOMAIN rows :
                   \E r \in requests : /\ r.id = rows[i].id
                                       /\ r.status = "open"
                                       /\ Age(r) <= ASSIGNMENT_EXPIRATION_DAYS
            /\ \A r \in requests :
                   (r.status = "open" /\ Age(r) < ASSIGNMENT_EXPIRATION_DAYS) => r.id \in ids
            /\ Cardinality(ids) = Len(rows)
            /\ \A i, j \in DOMAIN rows : i < j => rows[i].created_at >= rows[j].created_at
      ]_vars

\* C8: the outcome of Delete is decided by the stored row: no row -> 404 not
\* found; a row of another client -> 403 authorization error whatever its
\* status; the actor's own row that is not open -> 403 refused; the actor's own
\* open row -> removed. A step of a Delete call removes a row in no other case:
\* every row it removes is the actor's own and open.
OwnRow(call, r) == r.id = call.rid /\ r.client_id = call.user

C8_DeleteDecision ==
    [][\A c \in Slots :
        (calls[c].op = "delete" /\ calls'[c] # calls[c] /\ calls'[c].res.status # 500) =>
            /\ calls[c].pc = "check" =>
                 IF RequestById(calls[c].rid) = {}
                 THEN RejectedWith(calls'[c], 404, {"Assignment request not found"})
                 ELSE IF \E r \in RequestById(calls[c].rid) : r.client_id # calls[c].user
                 THEN RejectedWith(calls'[c], 403, {"You can only delete your own assignment requests"})
                 ELSE IF \E r \in RequestById(calls[c].rid) : r.status # "open"
                 THEN RejectedWith(calls'[c], 403, {"You cannot delete an assignment request that has already been assigned"})
                 ELSE calls'[c].pc = "delete"
            /\ \A r \in requests \ requests' : OwnRow(calls[c], r) /\ r.status = "open"
            /\ \A r \in requests' : r \in requests
      ]_vars

\* C9: when the Delete of a client finds their own request accepted (status
\* assigned), the call ends there with the conflict answer 'already been
\* assigned' (or with 500 if the query failed), and the step leaves every
\* request row and every assignment row as it was.
OwnAssigned(call) ==
    \E r \in requests : OwnRow(call, r) /\ r.status = "assigned"

C9_DeleteAfterAcceptRefused ==
    [][\A c \in Slots :
        (calls[c].op = "delete" /\ calls[c].pc = "check" /\ OwnAssigned(calls[c])
            /\ calls'[c] # calls[c]) =>
            /\ \/ RejectedWith(calls'[c], 403, {"You cannot delete an assignment request that has already been assigned"})
               \/ RejectedWith(calls'[c], 500, {"Server error"})
            /\ requests' = requests /\ assignments' = assignments
      ]_vars

\* A client's Delete of their own accepted request was refused, and the
\* request and its assignment are in the store.
C9_Witness ==
    \E c, d \in Slots :
        /\ AcceptSucceeded(d)
        /\ calls[c].op = "delete" /\ calls[c].rid = calls[d].rid
        /\ RejectedWith(calls[c], 403, {"You cannot delete an assignment request that has already been assigned"})
        /\ OwnAssigned(calls[c])
        /\ \E a \in AssignmentsOf(calls[c].rid) : a.writer_id = calls[d].user

\* C10: no step removes a request whose status is not open.
C10_NonOpenNeverRemoved ==
    [][\A r \in requests :
        r.status # "open" => \E r2 \in requests' : r2.id = r.id]_vars

\* C11: one run of ExpireStale removes exactly the requests that are open and
\* were created more than 7 days before the run; every other request and
\* every assignment, rating and user row stays as it was.
SweepRan == host'.sweeps = host.sweeps + 1

C11_SweepRemovesExactlyExpiredOpen ==
    [][SweepRan =>
        /\ requests' \subseteq requests
        /\ requests \ requests' =
               {r \in requests : r.status = "open"
                                 /\ now - r.created_at > ASSIGNMENT_EXPIRATION_DAYS}
        /\ assignments' = assignments /\ ratings' = ratings /\ users' = users
      ]_vars

\* A run removed one request and left an open request created exactly 7 days
\* before it and an assigned request older than that, with its rating.
C11_Witness ==
    /\ host.log = [kind |-> "deleted", count |-> 1]
    /\ host.sweptAt = now
    /\ \E r \in requests : r.status = "open" /\ now - r.created_at = ASSIGNMENT_EXPIRATION_DAYS
    /\ \E r \in requests : /\ r.status = "assigned"
                           /\ now - r.created_at > ASSIGNMENT_EXPIRATION_DAYS
                           /\ \E g \in ratings : g.assignment_request_id = r.id

\* C12: ExpireStale is idempotent: a run that follows a completed run, with
\* no request newly expired since that run, removes nothing and leaves the
\* store as the earlier run left it.
NewlyExpired ==
    {r \in requests : /\ r.status = "open"
                      /\ host.sweptAt - r.created_at <= ASSIGNMENT_EXPIRATION_DAYS
                      /\ now - r.created_at > ASSIGNMENT_EXPIRATION_DAYS}

C12_SweepIdempotent ==
    [][(SweepRan /\ host.sweeps >= 1 /\ NewlyExpired = {}) =>
        /\ requests' = requests
        /\ host'.log = [kind |-> "deleted", count |-> 0]
        /\ assignments' = assignments /\ ratings' = ratings /\ users' = users
      ]_vars

\* The second of two completed runs found an open request and an assigned
\* request in the store and removed nothing.
C12_Witness ==
    /\ host.sweeps = 2 /\ host.errors = 0
    /\ host.sweptAt = now
    /\ host.log = [kind |-> "deleted", count |-> 0]
    /\ \E r \in requests : r.status = "open"
    /\ \E r \in requests : r.status = "assigned"

\* C13: a run whose DELETE fails is caught and logged: it changes no request
\* (nor any other row), the process goes on serving, and the job is due again
\* only once the clock has reached the next midnight; every run of the job is
\* one the schedule made due.
SweepFailed == host'.errors = host.errors + 1

C13_SweepFailureContained ==
    [][/\ SweepFailed =>
            /\ host'.log.kind = "error"
            /\ requests' = requests /\ assignments' = assignments
            /\ ratings' = ratings /\ users' = users
            /\ host'.serving
            /\ host'.sweeps = host.sweeps
            /\ ~(host'.serving /\ host'.cronFired < now')
       /\ (SweepFailed \/ SweepRan) => host.cronFired < now /\ host'.cronFired = now
      ]_vars

\* After a failed run the process served the next day's run, which removed
\* the request the failed run had left.
C13_Witness ==
    /\ host.errors = 1 /\ host.sweeps = 1
    /\ host.serving
    /\ host.log.kind = "deleted" /\ host.log.count >= 1
    /\ host.sweptAt = ASSIGNMENT_EXPIRATION_DAYS

\* C14: the status of a stored request changes only from open to assigned or
\* from assigned to completed; a request that is no longer open is never open
\* again.
C14_StatusTransitions ==
    [][\A r \in requests, r2 \in requests' :
        (r2.id = r.id /\ r2.status # r.status) =>
            \/ r.status = "open" /\ r2.status = "assigned"
            \/ r.status = "assigned" /\ r2.status = "completed"
      ]_vars

\* Two Accepts of a request each inserted an assignment; one set the request
\* to assigned, the other ended with an error: the request is assigned.
C14_Witness ==
    \E c, d \in Slots :
        /\ AcceptSucceeded(c)
        /\ calls[d].op = "accept" /\ calls[d].rid = calls[c].rid
        /\ calls[d].pc = "done" /\ calls[d].res.status = 500
        /\ Cardinality(AssignmentsOf(calls[c].rid)) = 2
        /\ \E r \in RequestById(calls[c].rid) : r.status = "assigned"

\* C15: after SubmitRating succeeds for a request whose status is assigned,
\* the request has status completed.
RatingSucceeds(c) ==
    /\ calls[c].op = "rating" /\ calls[c].pc # "done"
    /\ calls'[c].pc = "done" /\ calls'[c].res.status = 201

C15_RatedRequestCompleted ==
    [][\A c \in Slots :
        (RatingSucceeds(c) /\ \E r \in RequestById(calls[c].rid) : r.status = "assigned") =>
            \E r \in requests' : r.id = calls[c].rid /\ r.status = "completed"
      ]_vars

\* C16: whenever no SubmitRating is in progress and none has failed, every
\* user's stored rating is the mean of the Rating rows that name the user as
\* rated (to the two decimals of the column) and the stored total_ratings is
\* their number.
IsMeanOf(stored, rows) ==
    LET n == Cardinality(rows)
        sum == SumOfRatings(rows)
        diff == stored * n - 100 * sum IN
    2 * (IF diff < 0 THEN 0 - diff ELSE diff) <= n

RatingsSettled ==
    \A c \in Slots : calls[c].pc \in {"idle", "done"} /\ calls[c].res.status # 500

C16_AggregateMatchesRatings ==
    RatingsSettled =>
        \A u \in users :
            /\ u.total_ratings = Cardinality(RatingsOf(ratings, u.id))
            /\ RatingsOf(ratings, u.id) # {} => IsMeanOf(u.rating, RatingsOf(ratings, u.id))

\* C17: there is at most one Rating row for a pair (rater_id,
\* assignment_request_id), also when two submissions for the pair overlap, and
\* a submission for a pair that has a row overwrites the score of that row
\* and adds no row.
RatingsOfPair(rows, rater, rid) ==
    {g \in rows : g.rater_id = rater /\ g.assignment_request_id = rid}

C18_NoSelfRating ==
    [][/\ \A g \in ratings' : g.rater_id # g.rated_id
       /\ \A c \in Slots :
            (/\ calls[c].op = "none" /\ calls'[c].op = "rating"
             /\ IsDbInteger(calls'[c].body.rated_id)
             /\ DigitsValue(calls'[c].body.rated_id, 0) = calls'[c].user) =>
                /\ RejectedWith(calls'[c], 403, {"You cannot rate yourself"})
                /\ ratings' = ratings /\ users' = users /\ assignments' = assignments
      ]_vars

\* A writer's rating of themselves was refused after the client had rated the
\* writer: the store holds the client's row only.
C18_Witness ==
    \E c, d \in Slots :
        /\ calls[c].op = "rating" /\ calls[c].pc = "done" /\ calls[c].res.status = 201
        /\ calls[d].op = "rating" /\ calls[d].user # calls[c].user
        /\ RejectedWith(calls[d], 403, {"You cannot rate yourself"})
        /\ ParseInt(calls[c].body.rated_id) = calls[d].user
        /\ \E g \in ratings : ratings = {g} /\ g.rater_id = calls[c].user
                              /\ g.rated_id = calls[d].user

\* C19: SubmitRating is all or nothing, in every state another request can
\* observe: where the Rating row of a submission is stored, the rated user's
\* aggregate counts it and the assignments of the request are completed.
C19_RatingAllOrNothing ==
    \A g \in ratings :
        /\ \A u \in UserById(g.rated_id) : u.total_ratings >= 1
        /\ \A a \in AssignmentsOf(g.assignment_request_id) :
               RequestById(g.assignment_request_id) # {} => a.status = "completed"

\* C20: when a SubmitRating succeeds (no other submission in progress or
\* failed, rater and request still stored), the assignments of the request are completed
\* with completed_at set, the submitted score is stored in a row that names
\* the rated user, and that user's aggregate is the mean and number of the
\* user's rows.
C20_RatingSuccessEffects ==
    [][\A c \in Slots :
        (/\ RatingSucceeds(c)
         /\ \A d \in Slots : d # c => calls[d].pc \in {"idle", "done"} /\ calls[d].res.status # 500
         /\ UserById(calls[c].user) # {} /\ RequestById(calls[c].rid) # {}) =>
            LET rated == ParseInt(calls[c].body.rated_id)
                rows == RatingsOf(ratings', rated) IN
            /\ \A a \in assignments' :
                   a.request_id = calls[c].rid =>
                       a.status = "completed" /\ a.completed_at # {}
            /\ \A u \in users' :
                   u.id = rated =>
                       /\ \E g \in rows : /\ g.rater_id = calls[c].user
                                          /\ g.assignment_request_id = calls[c].rid
                                          /\ g.rating = calls[c].body.rating
                       /\ u.total_ratings = Cardinality(rows)
                       /\ IsMeanOf(u.rating, rows)
      ]_vars

\* C25: whenever a request row has been removed, by the owner's Delete or by
\* the expiration job, in any interleaving with an Accept, no assignment row
\* references it: every assignment's request is in the store.
C25_NoAssignmentOfRemovedRequest ==
    \A a \in assignments : RequestById(a.request_id) # {}

\* C29: the writer of an assignment is never its client: nobody is the
\* accepted writer of a request they created themselves.
C29_WriterIsNotTheClient ==
    \A a \in assignments : a.writer_id # a.client_id

\* C30: the open check of Accept lets a call through only for a request that
\* ListOpen would return at that moment (open and inside the 7-day window),
\* so no assignment is created for an expired request.
C30_AcceptOnlyListedRequests ==
    [][\A c \in Slots :
          (calls[c].op = "accept" /\ calls[c].pc = "request" /\ calls'[c].pc = "client")
              => \E r \in OpenUnexpired : r.id = calls[c].rid]_vars

\* A page count that is a positive integer, as a number or as its digits.
PositiveInteger(value) ==
    \/ value.t = "number" /\ value.v10 > 0 /\ value.v10 % 10 = 0
    \/ value.t = "string" /\ IsDbInteger(value.s) /\ ParseInt(value.s) > 0

\* A cost that is positive, as a number or as its digits.
PositiveAmount(value) ==
    \/ value.t = "number" /\ value.v10 > 0
    \/ value.t = "string" /\ IsDbInteger(value.s) /\ ParseInt(value.s) > 0

\* The creation inputs of the contract: the three texts present and within
\* their lengths, a positive integer page count, a positive cost and a
\* deadline that is a date after today.
ValidBody(body, today) ==
    /\ body.course_name \in 1..MaxCourseName
    /\ body.course_code \in 1..MaxCourseCode
    /\ body.assignment_type \in 1..MaxAssignmentType
    /\ PositiveInteger(body.num_pages)
    /\ PositiveAmount(body.estimated_cost)
    /\ body.deadline.t = "date" /\ body.deadline.day > today

\* The rows ListOpen answers with.
Listing == {ListedRow(r) : r \in OpenUnexpired}

\* A Create has just been served.
Created == served' # served /\ served'.op = "create"

\* C21: a Create with valid inputs answers 201 and stores a new request that
\* is open, owned by the caller, with an estimated_cost that is a multiple
\* of 50 and a positive num_pages; the open listing of that moment contains
\* it with these values.
C21_ValidCreateStoresOpenRequest ==
    [][(Created /\ ValidBody(served'.body, now)) =>
          /\ served'.res.status = 201
          /\ LET r == served'.res.request IN
              /\ r \in requests' /\ r \notin requests
              /\ r.status = "open"
              /\ r.client_id = served'.user
              /\ r.estimated_cost % CostUnit = 0
              /\ r.num_pages > 0
              /\ \E listed \in Listing' :
                    /\ listed.id = r.id
                    /\ listed.status = "open"
                    /\ listed.client.id = served'.user
                    /\ listed.estimated_cost = r.estimated_cost
                    /\ listed.num_pages = r.num_pages]_vars

\* A valid body whose cost is not a multiple of 50 was stored, rounded.
C21_Witness ==
    /\ served.op = "create"
    /\ ValidBody(served.body, now)
    /\ served.body.estimated_cost = Num(1200)
    /\ served.res.status = 201
    /\ served.res.request \in requests
    /\ served.res.request.estimated_cost = 100

\* C22: a Create whose inputs are not valid (a field missing or malformed, a
\* page count that is no positive integer, a cost that is not positive, a
\* deadline that is no future date) fails, with an error answer, and inserts
\* no row.
C22_InvalidCreateRejected ==
    [][(Created /\ ~ ValidBody(served'.body, now)) =>
          /\ served'.res.status >= 400
          /\ requests' = requests]_vars
\* C27: a delete-account request without the exact confirmation is answered
\* 400 and changes no table; with it, either every row of the user is removed
\* from every table and no other row is touched, or no row is removed at all.
AccountDeletion == served' # served /\ served'.op = "delete-account"

NoRowOf(u) ==
    /\ \A g \in ratings : g.rater_id # u /\ g.rated_id # u
    /\ \A a \in assignments : a.writer_id # u /\ a.client_id # u
    /\ \A r \in requests : r.client_id # u
    /\ UserById(u) = {}

RowsOfOthers(u) ==
    <<{g \in ratings : g.rater_id # u /\ g.rated_id # u},
      {a \in assignments : a.writer_id # u /\ a.client_id # u},
      {r \in requests : r.client_id # u},
      {v \in users : v.id # u}>>

Tables == <<ratings, assignments, requests, users>>

AccountGone == NoRowOf(served.user)

C27_ConfirmedAndAtomicAccountDeletion ==
    [][AccountDeletion =>
        IF served'.body.confirmDelete # DELETE_MY_ACCOUNT_PERMANENTLY
        THEN served'.res.status = 400 /\ Tables' = Tables
        ELSE \/ Tables' = Tables /\ served'.res.status = 500
             \/ AccountGone' /\ Tables' = RowsOfOthers(served'.user)]_vars

C27_Witness ==
    /\ served.op = "delete-account" /\ served.user = 2 /\ served.res.status = 200
    /\ NoRowOf(2)
    /\ \E r \in requests : r.status = "assigned"

\* C24: while a logout is in progress, a delete-account request is answered
\* 503 and removes no row, and the flag isLogoutInProgress is true.
LogoutInProgress == \E c \in Slots : calls[c].pc = "logout"

C24_NoAccountDeletionDuringLogout ==
    [][(LogoutInProgress /\ AccountDeletion) =>
        (served'.res.status = 503 /\ Tables' = Tables)]_vars

\* C26: a Delete that answers with success leaves no row of the request in
\* the store, whether or not a logout was in progress when it ran.
DeleteSucceeds(c) ==
    /\ calls[c].op = "delete" /\ calls[c].pc # "done"
    /\ calls'[c].pc = "done" /\ calls'[c].res.status = 200

GuestServed == served' # served /\ served'.user = Guest

AskedWhetherLocked ==
    /\ loginLog'.op \in {"isAccountLocked", "callback"}
    /\ loginLog' # loginLog

FailedEnough(email) == loginLog.failed[email].n >= MaxAttempts

StillFresh(email) == loginLog.clock - loginLog.failed[email].last < lockTime

LockedNow == {email \in Emails : Locked(email)}

C28_LockedExactlyWhenFiveFreshFailures ==
    [][/\ AskedWhetherLocked =>
            LET email == loginLog'.email IN
            /\ loginLog'.told = (FailedEnough(email) /\ StillFresh(email))
            /\ (FailedEnough(email) /\ ~ StillFresh(email)) =>
                  /\ loginLog'.op = "isAccountLocked" => loginAttempts'[email] = NoAttempts
                  /\ loginLog'.op = "callback" => loginAttempts'[email].count = 1
       /\ loginLog'.op = "resetLoginAttempts" => loginLog'.email \notin LockedNow'
       /\ \A email \in Emails :
              (loginAttempts[email] = NoAttempts /\ loginAttempts'[email] # NoAttempts) =>
                  loginAttempts'[email].count = 1]_vars

C28_Witness ==
    /\ loginLog.op = "isAccountLocked" /\ loginLog.told
    /\ loginLog.failed[loginLog.email].n >= MaxAttempts
    /\ loginLog.clock - loginLog.failed[loginLog.email].last = lockTime - 10
    /\ loginLog.cleaned > 0

====
